---- MODULE Spec2Model ----
(***************************************************************************)
(* Per-guild music queue of the /play command (src/unnamed/part_000).      *)
(*                                                                         *)
(* The program is a single-threaded event loop.  One execute() call is     *)
(* three run-to-completion steps separated by its two awaits               *)
(* (deferReply, ytdl.getInfo); the player's 'idle' and 'error' listeners   *)
(* are run-to-completion steps of their own.  A queue object lives on the  *)
(* heap: the map `queues` refers to it by guild id, the two listeners      *)
(* refer to it through their closure.                                      *)
(*                                                                         *)
(* The audio player is the library's: it signals 'idle' when the resource  *)
(* it plays ends, and 'error' when the resource fails, in which case it    *)
(* leaves the playing state and signals 'idle' right after, in the same    *)
(* synchronous emission (emitting holds the queue object meanwhile).       *)
(***************************************************************************)
EXTENDS Integers, Sequences, FiniteSets, TLC

MaxReq == 2

Guilds == {"g1", "g2"}

Channels == {"c1", "c2"}

Requests == 1..MaxReq

VARIABLES
  reqs,       \* request -> [pc, guild]: one execute() call each (its interaction)
  queues,     \* the Map guild id -> queue object (0: no entry)
  heap,       \* the queue objects ever created, by object id
  emitting,   \* queue object whose player is between its 'error' and the 'idle' that follows (0: none)
  appended,   \* history: per guild, the tracks pushed to songs, in push order
  started,    \* history: per guild, the tracks playSong started, in order
  finished,   \* history: per guild, the tracks whose idle signal was handled
  faulted,    \* history: per guild, a connection, stream-open or player error occurred
  last,       \* history: the step taken last
  notice      \* history: the status message the last step sent, and what became of it

vars == <<reqs, queues, heap, emitting, appended, started, finished, faulted, last, notice>>

NoStep == [op |-> "init", r |-> 0, g |-> "g1", q |-> 0]

Step(op, r, g, q) == [op |-> op, r |-> r, g |-> g, q |-> q]

QIds == 1..Len(heap)

\* The step sent no status message.
NoNotice == [msg |-> "none", chan |-> "none", asked |-> "none", ok |-> TRUE, escaped |-> FALSE]

\* interaction.reply / editReply / followUp: msg is the message, chan the channel it
\* reports, asked the voice channel option of the call that sent it, ok whether the
\* platform delivered it.  caught = TRUE where the returned promise has a .catch
\* (lines 161, 188, 197, 211, 224); where execute() returns the promise as it is
\* (lines 48, 59, 71, 101, 149) a failed delivery rejects execute() itself.
Notify(msg, chan, asked, ok, caught) ==
  [msg |-> msg, chan |-> chan, asked |-> asked, ok |-> ok, escaped |-> ~ok /\ ~caught]

\* The request that calls execute() next: requests are numbered in arrival order.
NextReq == CHOOSE r \in Requests : reqs[r].pc = "new" /\ \A s \in 1..(r-1) : reqs[s].pc # "new"

\* lines 118-122: the object literal of a new queue (and what the model records about it)
NewQueue(g) ==
  [guild |-> g, songs |-> <<>>, player |-> "idle", connection |-> "null",
   channel |-> "c1", errorObs |-> 0, idleObs |-> 0,
   connects |-> 0, destroys |-> 0, playHeads |-> 0, errs |-> 0, racers |-> {}]

\* A request that has not called execute() yet, or whose call has returned
\* (its interaction is no longer referred to by the state the model keeps).
NoReq(pc) == [pc |-> pc, guild |-> "g1"]

\* A queue object is reachable through the map (line 19), or through the closures
\* of its player's listeners (lines 156, 170) while that player can still signal.
Reachable(q) ==
  \/ queues[heap[q].guild] = q
  \/ heap[q].player = "playing"
  \/ emitting = q

\* What is left of a queue object the runtime has reclaimed.
Collected == NewQueue("g1")

Garbage == {q \in QIds : ~Reachable(q) /\ heap[q] # Collected}

\* The event loop is between two events and every unreachable queue object is reclaimed.
Ready == emitting = 0 /\ Garbage = {}

Init ==
  /\ reqs = [r \in Requests |-> NoReq("new")]
  /\ queues = [g \in Guilds |-> 0]
  /\ heap = <<>>
  /\ emitting = 0
  /\ appended = [g \in Guilds |-> <<>>]
  /\ started = [g \in Guilds |-> <<>>]
  /\ finished = [g \in Guilds |-> <<>>]
  /\ faulted = [g \in Guilds |-> FALSE]
  /\ last = NoStep
  /\ notice = NoNotice

Done(r) == [reqs EXCEPT ![r] = NoReq("done")]

\* lines 36-94: execute() up to `await interaction.deferReply()`.
\* valid = FALSE: not in a guild, not a voice channel, or missing permissions.
\* The voice channel option (line 52) is not used before line 133: the model draws
\* it where it is used (ResolveOk).
Arrive(g, valid, nok) ==
  /\ Ready
  /\ \E r \in Requests : reqs[r].pc = "new"
  /\ LET r == NextReq IN
       /\ reqs' = IF valid THEN [reqs EXCEPT ![r] = [pc |-> "deferring", guild |-> g]]
                          ELSE Done(r)
       /\ last' = Step(IF valid THEN "arrive" ELSE "rejected", r, g, 0)
  /\ notice' = IF valid THEN NoNotice ELSE Notify("rejected", "none", "none", nok, FALSE)
  /\ UNCHANGED <<queues, heap, emitting, appended, started, finished, faulted>>

\* lines 86-102: deferReply settles; then the URL check, up to `await ytdl.getInfo(query)`.
DeferDone(r, res, nok) ==
  /\ Ready
  /\ reqs[r].pc = "deferring"
  /\ reqs' = IF res = "ok" THEN [reqs EXCEPT ![r].pc = "resolving"] ELSE Done(r)
  /\ last' = Step(IF res = "ok" THEN "deferred" ELSE res, r, reqs[r].guild, 0)
  /\ notice' = IF res = "invalidURL" THEN Notify("invalidURL", "none", "none", nok, FALSE)
                                     ELSE NoNotice
  /\ UNCHANGED <<queues, heap, emitting, appended, started, finished, faulted>>

\* Mutant of ResolveFail: the catch block drops the guild's entry.
ResolveFail_Deletes(r, nok) ==
  /\ Ready
  /\ reqs[r].pc = "resolving"
  /\ reqs' = Done(r)
  /\ queues' = [queues EXCEPT ![reqs[r].guild] = 0]
  /\ last' = Step("resolutionError", r, reqs[r].guild, 0)
  /\ notice' = Notify("resolutionFailed", "none", "none", nok, TRUE)
  /\ UNCHANGED <<heap, emitting, appended, started, finished, faulted>>

\* lines 106-108, 192-200: getInfo rejects; the catch block only edits the reply.
ResolveFail(r, nok) ==
  /\ Ready
  /\ reqs[r].pc = "resolving"
  /\ reqs' = Done(r)
  /\ last' = Step("resolutionError", r, reqs[r].guild, 0)
  /\ notice' = Notify("resolutionFailed", "none", "none", nok, TRUE)
  /\ UNCHANGED <<queues, heap, emitting, appended, started, finished, faulted>>

\* Mutant of HasQueue: the lookup never finds the entry.
HasQueue_Never(qs, g) == FALSE

\* line 117: if (!queue) -- the guild has an entry in the map
HasQueue(qs, g) == qs[g] # 0

\* Mutant of Push: the sequence is replaced by the new track.
Push_Replace(songs, t) == <<t>>

\* Mutant of Push: unshift instead of push.
Push_Front(songs, t) == <<t>> \o songs

\* line 127: queue.songs.push(song)
Push(songs, t) == Append(songs, t)

\* Mutant of NeedJoin: the connection check is dropped.
NeedJoin_Always(qrec) == TRUE

\* line 130: if (!queue.connection)
NeedJoin(qrec) == qrec.connection = "null"

\* lines 132-136: queue.connection = joinVoiceChannel({channelId: voiceChannel.id, ...})
Join(qrec, c) ==
  [qrec EXCEPT !.connection = "live", !.channel = c, !.connects = @ + 1]

\* lines 156, 170: queue.player.on('error', ...) and queue.player.on(AudioPlayerStatus.Idle, ...)
RegisterObservers(qrec) ==
  [qrec EXCEPT !.errorObs = @ + 1, !.idleObs = @ + 1]

\* Mutant of JoinFailed: the whole map is cleared.
JoinFailed_Clear(qs, g) == [h \in DOMAIN qs |-> 0]

\* Mutant of JoinFailed: the entry is left in the map.
JoinFailed_Keeps(qs, g) == qs

\* line 148: queues.delete(interaction.guild.id) after joinVoiceChannel threw
JoinFailed(qs, g) == [qs EXCEPT ![g] = 0]

\* Mutant of ShouldPlay: every enqueue starts its track.
ShouldPlay_Always(qrec) == TRUE

\* line 185: if (queue.songs.length === 1)
ShouldPlay(qrec) == Len(qrec.songs) = 1

\* Mutant of PlaySong: a track that cannot be started is dropped from the queue.
PlaySong_SkipsOnFail(qrec, ok) ==
  IF ok THEN [qrec EXCEPT !.player = "playing", !.playHeads = @ + 1]
        ELSE [qrec EXCEPT !.playHeads = @ + 1, !.songs = Tail(@)]

\* lines 204-228: playSong; ok = FALSE when opening or starting the resource throws,
\* in which case the catch block only reports the failure.
PlaySong(qrec, ok) ==
  IF ok THEN [qrec EXCEPT !.player = "playing", !.playHeads = @ + 1]
        ELSE [qrec EXCEPT !.playHeads = @ + 1]

\* lines 211, 224: what playSong tells the interaction it was given: "now playing"
\* with the channel of the queue's connection, or the failure.
PlayNotice(qrec, ok, asked, nok) ==
  IF ok THEN Notify("nowPlaying", qrec.channel, asked, nok, TRUE)
        ELSE Notify("playFailed", "none", asked, nok, TRUE)

\* Mutant of Destroy: the connection is not released.
Destroy_Noop(qrec) == [qrec EXCEPT !.destroys = @ + 1]

\* lines 165, 175: queue.connection.destroy()
Destroy(qrec) == [qrec EXCEPT !.connection = "destroyed", !.destroys = @ + 1]

\* Mutant of Delete: the whole map is cleared.
Delete_All(qs, g) == [h \in DOMAIN qs |-> 0]

\* Mutant of Delete: the entry is left in the map.
Delete_Noop(qs, g) == qs

\* lines 166, 176: queues.delete(interaction.guild.id)
Delete(qs, g) == [qs EXCEPT ![g] = 0]

\* Mutant of Shift: pop instead of shift.
Shift_Last(songs) == IF songs = <<>> THEN <<>> ELSE SubSeq(songs, 1, Len(songs) - 1)

\* line 171: queue.songs.shift()
Shift(songs) == IF songs = <<>> THEN <<>> ELSE Tail(songs)

\* Mutant of ErrorReset: the connection is not destroyed.
ErrorReset_NoDestroy(qrec) == [qrec EXCEPT !.songs = <<>>, !.errs = @ + 1]

\* Mutant of ErrorReset: songs is not cleared.
ErrorReset_KeepsSongs(qrec) ==
  [qrec EXCEPT !.errs = @ + 1, !.connection = "destroyed", !.destroys = @ + 1]

\* lines 164-165: the error listener's reset of the queue object
ErrorReset(qrec) == Destroy([qrec EXCEPT !.songs = <<>>, !.errs = @ + 1])

\* Mutant of KeepConnection: the connection is moved to the channel the call names.
KeepConnection_Moves(qrec, c) == [qrec EXCEPT !.channel = c]

\* line 130, condition false: the queue keeps the connection it has; the voice
\* channel option c of the call is not looked at.
KeepConnection(qrec, c) == qrec

\* lines 109-191: getInfo resolved; the rest of execute() runs without suspension
\* up to the reply (playSong included).  c: the voice channel option of the
\* interaction; joinOk: joinVoiceChannel returns; streamOk: playSong opens and
\* starts the resource; nok: the reply is delivered.
ResolveOk(r, c, joinOk, streamOk, nok) ==
  /\ Ready
  /\ reqs[r].pc = "resolving"
  /\ LET g == reqs[r].guild
         create == ~HasQueue(queues, g)
         q == IF create THEN Len(heap) + 1 ELSE queues[g]
         racers == {s \in Requests \ {r} : reqs[s].pc = "resolving" /\ reqs[s].guild = g}
         h1 == IF create THEN Append(heap, [NewQueue(g) EXCEPT !.racers = racers]) ELSE heap
         qs1 == IF create THEN [queues EXCEPT ![g] = q] ELSE queues
         h2 == [h1 EXCEPT ![q].songs = Push(@, r)]
         join == NeedJoin(h2[q])
     IN /\ appended' = [appended EXCEPT ![g] = Append(@, r)]
        /\ IF join /\ ~joinOk
             THEN /\ heap' = h2
                  /\ queues' = JoinFailed(qs1, g)
                  /\ reqs' = Done(r)
                  /\ faulted' = [faulted EXCEPT ![g] = TRUE]
                  /\ started' = started
                  /\ last' = Step("connectionError", r, g, q)
                  /\ notice' = Notify("joinFailed", "none", c, nok, FALSE)
             ELSE LET h3 == IF join THEN [h2 EXCEPT ![q] = RegisterObservers(Join(@, c))]
                                    ELSE [h2 EXCEPT ![q] = KeepConnection(@, c)]
                      play == ShouldPlay(h3[q])
                  IN /\ queues' = qs1
                     /\ heap' = IF play THEN [h3 EXCEPT ![q] = PlaySong(@, streamOk)] ELSE h3
                     /\ started' = IF play /\ streamOk
                                     THEN [started EXCEPT ![g] = Append(@, Head(h3[q].songs))]
                                     ELSE started
                     /\ faulted' = IF play /\ ~streamOk THEN [faulted EXCEPT ![g] = TRUE] ELSE faulted
                     /\ reqs' = Done(r)
                     /\ last' = Step(IF ~play THEN "added" ELSE IF streamOk THEN "playing" ELSE "playFailed",
                                     r, g, q)
                     /\ notice' = IF ~play THEN Notify("added", "none", c, nok, TRUE)
                                  ELSE PlayNotice(h3[q], streamOk, c, nok)
  /\ UNCHANGED <<emitting, finished>>

\* lines 170-181: the idle listener of queue object q (its closure holds the object
\* and the guild id of the interaction that created it).  The player has left the
\* playing state when the listener runs.
IdleHandler(q, streamOk, nok) ==
  LET g == heap[q].guild
      h1 == [heap EXCEPT ![q].player = "idle", ![q].songs = Shift(@)]
  IN IF Len(h1[q].songs) > 0
       THEN /\ heap' = [h1 EXCEPT ![q] = PlaySong(@, streamOk)]
            /\ queues' = queues
            /\ started' = IF streamOk THEN [started EXCEPT ![g] = Append(@, Head(h1[q].songs))]
                                      ELSE started
            /\ faulted' = IF streamOk THEN faulted ELSE [faulted EXCEPT ![g] = TRUE]
            /\ notice' = PlayNotice(h1[q], streamOk, h1[q].channel, nok)
       ELSE /\ heap' = [h1 EXCEPT ![q] = Destroy(@)]
            /\ queues' = Delete(queues, g)
            /\ started' = started
            /\ faulted' = faulted
            /\ notice' = NoNotice

\* The resource played by q's player ended: the player signals 'idle'.
PlayerIdle(q, streamOk, nok) ==
  /\ Ready
  /\ heap[q].player = "playing"
  /\ heap[q].idleObs > 0
  /\ IdleHandler(q, streamOk, nok)
  /\ finished' = IF heap[q].songs = <<>> THEN finished
                 ELSE [finished EXCEPT ![heap[q].guild] = Append(@, Head(heap[q].songs))]
  /\ last' = Step(IF Len(heap[q].songs) > 1
                    THEN (IF streamOk THEN "idleNext" ELSE "idleNextFailed")
                    ELSE "idleLast", 0, heap[q].guild, q)
  /\ UNCHANGED <<reqs, emitting, appended>>

\* lines 156-167: the resource played by q's player failed: the player signals
\* 'error' and the error listener runs; the player then leaves the playing state,
\* which signals 'idle' (IdleAfterError) before anything else runs.
PlayerError(q, nok) ==
  /\ Ready
  /\ heap[q].player = "playing"
  /\ heap[q].errorObs > 0
  /\ heap' = [heap EXCEPT ![q] = ErrorReset(@)]
  /\ queues' = Delete(queues, heap[q].guild)
  /\ faulted' = [faulted EXCEPT ![heap[q].guild] = TRUE]
  /\ emitting' = q
  /\ last' = Step("playerError", 0, heap[q].guild, q)
  /\ notice' = Notify("playerError", "none", "none", nok, TRUE)
  /\ UNCHANGED <<reqs, appended, started, finished>>

\* The 'idle' signal that follows an 'error' of the same player.
IdleAfterError(q) ==
  /\ emitting = q
  /\ IdleHandler(q, TRUE, TRUE)
  /\ emitting' = 0
  /\ last' = Step("idleAfterError", 0, heap[q].guild, q)
  /\ UNCHANGED <<reqs, appended, finished>>

\* The runtime reclaims the queue objects nothing refers to any more.
CollectGarbage ==
  /\ emitting = 0
  /\ Garbage # {}
  /\ heap' = [q \in QIds |-> IF q \in Garbage THEN Collected ELSE heap[q]]
  /\ last' = Step("collect", 0, "g1", 0)
  /\ notice' = NoNotice
  /\ UNCHANGED <<reqs, queues, emitting, appended, started, finished, faulted>>

Next ==
  \/ \E g \in Guilds, valid \in BOOLEAN, nok \in BOOLEAN : Arrive(g, valid, nok)
  \/ \E r \in Requests, res \in {"ok", "deferFailed", "invalidURL"}, nok \in BOOLEAN :
        DeferDone(r, res, nok)
  \/ \E r \in Requests, nok \in BOOLEAN : ResolveFail(r, nok)
  \/ \E r \in Requests, c \in Channels, joinOk \in BOOLEAN, streamOk \in BOOLEAN, nok \in BOOLEAN :
        ResolveOk(r, c, joinOk, streamOk, nok)
  \/ \E q \in QIds, streamOk \in BOOLEAN, nok \in BOOLEAN : PlayerIdle(q, streamOk, nok)
  \/ \E q \in QIds, nok \in BOOLEAN : PlayerError(q, nok)
  \/ \E q \in QIds : IdleAfterError(q)
  \/ CollectGarbage

Spec == Init /\ [][Next]_vars

----
\* Helpers of the properties

Range(s) == {s[i] : i \in 1..Len(s)}

\* The queue objects of guild g whose voice connection is created and not destroyed
LiveConns(g) == {q \in QIds : heap[q].guild = g /\ heap[q].connection = "live"}

\* songs of the queue registered for g (empty when g has no entry)
Songs(g) == IF queues[g] = 0 THEN <<>> ELSE heap[queues[g]].songs

----
\* C1: in a guild where no connection, stream-open or player error occurred (failed
\* resolutions append nothing and are allowed), the tracks started by playSong are
\* the tracks pushed to songs, in push order, each once: what was pushed is what was
\* started followed by what still waits behind the head; and a track is started
\* only when every track started before it has signalled idle.
C1_FifoPlayback ==
  \A g \in Guilds : ~faulted[g] =>
    /\ appended[g] = started[g] \o Shift(Songs(g))
    /\ IF queues[g] = 0
         THEN finished[g] = started[g]
         ELSE /\ started[g] = Append(finished[g], Head(Songs(g)))
              /\ heap[queues[g]].player = "playing"

\* C1 witness: an idle signal advanced an error-free queue to its second track.
C1_Witness ==
  \E g \in Guilds :
    /\ ~faulted[g]
    /\ last.op = "idleNext" /\ last.g = g
    /\ Len(started[g]) = 2 /\ Len(finished[g]) = 1

\* C2: the songs of a guild's queue are in the order in which their requests
\* arrived (requests are numbered in arrival order), whatever the order in which
\* their metadata resolutions complete.
C2_ArrivalOrder ==
  \A g \in Guilds : \A i, j \in 1..Len(Songs(g)) : i < j => Songs(g)[i] < Songs(g)[j]

\* C3: every map entry is the queue of its key, and as long as a guild has seen no
\* lifecycle signal and no failure, all the tracks pushed for it (by calls that were
\* suspended in getInfo together included) sit in one queue object, which was
\* connected once and for which playSong was called once, for the first track pushed.
C3_OneEntry ==
  \A g \in Guilds :
    /\ queues[g] # 0 => queues[g] \in QIds /\ heap[queues[g]].guild = g
    /\ (~faulted[g] /\ finished[g] = <<>> /\ appended[g] # <<>>) =>
         /\ queues[g] # 0
         /\ \A q \in QIds : (heap[q] # Collected /\ heap[q].guild = g) => q = queues[g]
         /\ Songs(g) = appended[g]
         /\ heap[queues[g]].connects = 1
         /\ heap[queues[g]].playHeads = 1
         /\ started[g] = <<Head(appended[g])>>

\* C3 witness: a call that was suspended in getInfo when the entry was created has
\* pushed its track to that same entry.
C3_Witness ==
  \E g \in Guilds :
    /\ ~faulted[g] /\ finished[g] = <<>>
    /\ queues[g] # 0
    /\ heap[queues[g]].racers # {}
    /\ Len(Songs(g)) = 2
    /\ heap[queues[g]].racers \subseteq Range(Songs(g))

\* C4: a guild has at most one live voice connection, and a live connection is
\* the connection of the queue registered in the map for its guild.
C4_OneLiveConnection ==
  \A g \in Guilds :
    /\ Cardinality(LiveConns(g)) <= 1
    /\ \A q \in LiveConns(g) : queues[g] = q

\* C4 witness: a guild whose first queue was torn down by a player error has a
\* second queue with the only live connection.
C4_Witness ==
  \E g \in Guilds :
    /\ faulted[g] /\ Len(started[g]) = 2
    /\ queues[g] = 2 /\ LiveConns(g) = {2}
    /\ heap[1] = Collected

\* C5: between events a guild has a live connection iff its songs is non-empty.
C5_ConnectionIffSongs ==
  \A g \in Guilds : (LiveConns(g) # {}) <=> (Songs(g) # <<>>)

\* C5 witness: one guild is playing on a live connection while another one has
\* drained its queue and released its connection.
C5_Witness ==
  \E g, h \in Guilds :
    /\ g # h
    /\ Songs(g) # <<>> /\ LiveConns(g) # {}
    /\ finished[h] # <<>> /\ Songs(h) = <<>> /\ LiveConns(h) = {}

\* C6: a call that ends at the URL check or because getInfo rejected changes
\* neither the map nor any queue object (songs, connection, player), and starts
\* nothing.
C6_FailedResolutionNoMutation ==
  [][last'.op \in {"invalidURL", "resolutionError"} =>
       /\ queues' = queues
       /\ heap' = heap
       /\ appended' = appended
       /\ started' = started]_vars

\* C6 witness: getInfo rejected for a guild whose queue is playing.
C6_Witness ==
  /\ last.op = "resolutionError"
  /\ queues[last.g] # 0
  /\ heap[queues[last.g]].player = "playing"

\* C7: when joinVoiceChannel throws, the guild has no entry afterwards as it had
\* none before, no queue object that existed changes, the queue object of the call
\* has no listener and no playback, and the track of the call is in no registered
\* queue.
C7_ConnectFailureRollsBack ==
  [][last'.op = "connectionError" =>
       /\ queues[last'.g] = 0
       /\ queues' = queues
       /\ Len(heap') = Len(heap) + 1
       /\ \A q \in QIds : heap'[q] = heap[q]
       /\ heap'[last'.q].idleObs = 0 /\ heap'[last'.q].errorObs = 0
       /\ heap'[last'.q].player = "idle" /\ heap'[last'.q].playHeads = 0
       /\ heap'[last'.q].connection = "null"
       /\ started' = started
       /\ \A g \in Guilds : queues'[g] # 0 => last'.r \notin Range(heap'[queues'[g]].songs)]_vars

\* C7 witness: joinVoiceChannel threw for the second request.
C7_Witness ==
  /\ last.op = "connectionError"
  /\ last.r = 2
  /\ queues[last.g] = 0

\* C8: right after the error listener ran, the queue's songs is empty, its
\* connection is destroyed and its guild has no entry, whatever the length of songs
\* was; and an enqueue that succeeds for a guild without entry creates a new queue
\* object with a new connection and starts its track.
C8_ErrorIsHardReset ==
  [][/\ (last'.op = "playerError") =>
          /\ heap'[last'.q].songs = <<>>
          /\ heap'[last'.q].connection = "destroyed"
          /\ queues'[last'.g] = 0
          /\ \A q \in QIds : heap'[q].guild = last'.g => heap'[q].connection # "live"
     /\ (last'.op = "playing" /\ queues[last'.g] = 0) =>
          /\ last'.q = Len(heap) + 1
          /\ queues'[last'.g] = last'.q
          /\ heap'[last'.q].connection = "live"
          /\ heap'[last'.q].connects = 1 /\ heap'[last'.q].destroys = 0
          /\ heap'[last'.q].songs = <<last'.r>>
          /\ heap'[last'.q].player = "playing"
          /\ started'[last'.g] = Append(started[last'.g], last'.r)]_vars

\* C8 witness: the enqueue that follows a player error in the same guild is playing.
C8_Witness ==
  /\ last.op = "playing"
  /\ faulted[last.g]
  /\ started[last.g] = <<1, 2>> /\ finished[last.g] = <<>>
  /\ heap[1] = Collected

\* C9: the idle listener of the registered queue, run when songs holds one track,
\* leaves songs empty, the connection destroyed and the guild without entry and
\* without live connection.
C9_LastIdleTearsDown ==
  [][(/\ last'.op \in {"idleLast", "idleNext", "idleNextFailed"}
      /\ queues[last'.g] = last'.q
      /\ Len(heap[last'.q].songs) = 1) =>
       /\ heap'[last'.q].songs = <<>>
       /\ heap'[last'.q].connection = "destroyed"
       /\ queues'[last'.g] = 0
       /\ \A q \in QIds : heap'[q].guild = last'.g => heap'[q].connection # "live"]_vars

\* C9 witness: the last of two queued songs finished.
C9_Witness ==
  /\ last.op = "idleLast"
  /\ Len(finished[last.g]) = 2
  /\ queues[last.g] = 0
  /\ heap[last.q].connection = "destroyed"

\* C10: a queue object is connected at most once and has at most one idle and one
\* error listener, and exactly one of each while it is registered in the map.
C10_ConnectAndSubscribeOnce ==
  \A q \in QIds :
    /\ heap[q].connects <= 1 /\ heap[q].idleObs <= 1 /\ heap[q].errorObs <= 1
    /\ queues[heap[q].guild] = q =>
         heap[q].connects = 1 /\ heap[q].idleObs = 1 /\ heap[q].errorObs = 1

\* C10 witness: an enqueue found the guild connected and only added its track.
C10_Witness ==
  /\ last.op = "added"
  /\ heap[last.q].connects = 1
  /\ heap[last.q].idleObs = 1 /\ heap[last.q].errorObs = 1

\* C11: an enqueue for a guild that has an entry leaves the connection of its queue,
\* the channel that connection is bound to and the number of joins as they were,
\* whatever voice channel the call names; and every "now playing" message reports
\* the channel of the queue's connection.
C11_NoRejoin ==
  [][/\ (last'.op \in {"added", "playing", "playFailed"} /\ queues[last'.g] # 0) =>
          /\ last'.q = queues[last'.g]
          /\ queues' = queues
          /\ heap'[last'.q].connection = heap[last'.q].connection
          /\ heap'[last'.q].channel = heap[last'.q].channel
          /\ heap'[last'.q].connects = heap[last'.q].connects
     /\ (notice'.msg = "nowPlaying") =>
          /\ heap'[last'.q].connection = "live"
          /\ notice'.chan = heap'[last'.q].channel]_vars

\* C11 witness: a call that names another channel than the one the guild is
\* connected to has added its track.
C11_Witness ==
  /\ last.op = "added"
  /\ heap[last.q].connection = "live"
  /\ notice.asked # heap[last.q].channel

\* C12: a step of guild G (a step of an enqueue whatever its outcome, an idle or
\* error signal, a failing playSong) leaves every other guild's map entry, queue
\* object (songs, connection, player) and playback history as they were.
C12_GuildIsolation ==
  [][\A h \in Guilds \ {last'.g} :
       /\ queues'[h] = queues[h]
       /\ \A q \in QIds : (Reachable(q) /\ heap[q].guild = h) => heap'[q] = heap[q]
       /\ appended'[h] = appended[h]
       /\ started'[h] = started[h]
       /\ finished'[h] = finished[h]]_vars

\* C12 witness: the player of one guild signalled error while another guild was playing.
C12_Witness ==
  /\ last.op = "playerError"
  /\ \E h \in Guilds \ {last.g} : queues[h] # 0 /\ heap[queues[h]].player = "playing"

\* The queue object q as the step that is being taken found it (a new object if
\* the step creates it).
Before(q) == IF q \in QIds THEN heap[q] ELSE NewQueue(last'.g)

\* C13: an enqueue that has pushed its track (and has a connection) calls playSong
\* iff the track is the only one in songs; when songs held a track before, the
\* call pushes at the tail, starts nothing, leaves the player as it is and only
\* sends "added to queue".
C13_PlayOnlyIfFirst ==
  [][last'.op \in {"added", "playing", "playFailed"} =>
       /\ heap'[last'.q].playHeads =
            Before(last'.q).playHeads + (IF Len(heap'[last'.q].songs) = 1 THEN 1 ELSE 0)
       /\ Before(last'.q).songs # <<>> =>
            /\ heap'[last'.q].songs = Append(Before(last'.q).songs, last'.r)
            /\ heap'[last'.q].player = Before(last'.q).player
            /\ started' = started
            /\ notice'.msg = "added"]_vars

\* C13 witness: a track was added behind the one that is playing.
C13_Witness ==
  /\ last.op = "added"
  /\ notice.msg = "added"
  /\ heap[last.q].player = "playing"
  /\ Len(heap[last.q].songs) = 2

\* C14: the idle listener of a registered queue whose songs holds two or more
\* tracks removes the head only, calls playSong once for the new head with the
\* same player and connection, and creates no connection and no queue entry.
C14_IdleAdvances ==
  [][(/\ last'.op \in {"idleLast", "idleNext", "idleNextFailed"}
      /\ queues[last'.g] = last'.q
      /\ Len(heap[last'.q].songs) >= 2) =>
       /\ heap'[last'.q].songs = Tail(heap[last'.q].songs)
       /\ heap'[last'.q].playHeads = heap[last'.q].playHeads + 1
       /\ last'.op = "idleNext" =>
            /\ started'[last'.g] = Append(started[last'.g], heap[last'.q].songs[2])
            /\ heap'[last'.q].player = "playing"
            /\ notice'.msg = "nowPlaying"
       /\ heap'[last'.q].connection = "live"
       /\ heap'[last'.q].connects = heap[last'.q].connects
       /\ heap'[last'.q].channel = heap[last'.q].channel
       /\ heap'[last'.q].idleObs = 1 /\ heap'[last'.q].errorObs = 1
       /\ queues' = queues
       /\ Len(heap') = Len(heap)]_vars

\* C14 witness: the first of two queued tracks ended and the second one was started.
C14_Witness ==
  /\ last.op = "idleNext"
  /\ queues[last.g] = last.q
  /\ Len(finished[last.g]) = 1
  /\ heap[last.q].songs = <<started[last.g][2]>>

\* C15: when playSong cannot open or start the head track, it reports the failure
\* and changes nothing else: songs is as playSong found it (the pushed track, or
\* what the idle listener left after its shift) with the failing track at the head,
\* the connection is live, the entry is in the map and nothing is playing.
C15_PlayFailureKeepsQueue ==
  [][last'.op \in {"playFailed", "idleNextFailed"} =>
       /\ notice'.msg = "playFailed"
       /\ heap'[last'.q].songs =
            (IF last'.op = "playFailed" THEN Append(Before(last'.q).songs, last'.r)
                                       ELSE Tail(heap[last'.q].songs))
       /\ heap'[last'.q].songs # <<>>
       /\ heap'[last'.q].connection = "live"
       /\ heap'[last'.q].destroys = 0
       /\ heap'[last'.q].player = "idle"
       /\ queues'[last'.g] = last'.q
       /\ started' = started]_vars

\* C15 witness: the track behind the one that ended could not be started.
C15_Witness ==
  /\ last.op = "idleNextFailed"
  /\ notice.msg = "playFailed"
  /\ queues[last.g] = last.q
  /\ Len(heap[last.q].songs) = 1

\* songs of queue object q as the step that is being taken found it
SongsBefore(q) == IF q \in QIds THEN heap[q].songs ELSE <<>>

\* songs of q is what it was, or that with one track appended, or that without its head
AppendOrShift(q) ==
  \/ heap'[q].songs = SongsBefore(q)
  \/ \E r \in Requests : heap'[q].songs = Append(SongsBefore(q), r)
  \/ SongsBefore(q) # <<>> /\ heap'[q].songs = Tail(SongsBefore(q))

\* C16 as stated: every step of the program changes the songs of a queue only by
\* appending one track at the tail or by removing the head.
C16_OnlyAppendOrShift ==
  [][last'.op # "collect" => \A q \in 1..Len(heap') : AppendOrShift(q)]_vars

\* C16 as amended: every step of the program changes the songs of a queue only by
\* appending one track at the tail, by removing the head, or, in the error
\* listener, by clearing the whole sequence.
C16_AppendShiftOrClear ==
  [][last'.op # "collect" =>
       \A q \in 1..Len(heap') :
         \/ AppendOrShift(q)
         \/ last'.op = "playerError" /\ last'.q = q /\ heap'[q].songs = <<>>]_vars

\* C16 witness: the player signalled error while two tracks were in songs.
C16_Witness ==
  /\ last.op = "playerError"
  /\ Len(appended[last.g]) = 2
  /\ started[last.g] = <<appended[last.g][1]>>
  /\ finished[last.g] = <<>>
  /\ heap[last.q].songs = <<>>

\* C17: a status message of the enqueue (from the URL check on), of playSong, of
\* the idle listener or of the error listener that cannot be delivered is
\* swallowed: the failure never leaves the operation that sent the message.
C17_NotifySwallowed ==
  (notice.msg # "rejected" /\ ~notice.ok) => ~notice.escaped

C19_DestroyOnce == \A q \in QIds : heap[q].destroys <= 1

\* A guild is stalled: it has an entry with tracks and a live connection, and its
\* player plays nothing.
Stalled(g) ==
  /\ queues[g] # 0
  /\ Songs(g) # <<>>
  /\ heap[queues[g]].connection = "live"
  /\ heap[queues[g]].player = "idle"

\* No step takes a guild out of a stall.
StallIsPermanent == [][\A g \in Guilds : Stalled(g) => Stalled(g)']_vars

\* C20: no guild is ever left, between two events, with tracks in songs and a live
\* connection while nothing is playing (from such a state no signal can come, so
\* the tracks would be neither started nor discarded and the guild would never
\* return to Idle).
C20_NoStall == \A g \in Guilds : ~Stalled(g)

====
